---- MODULE Spec2Model ----
(***************************************************************************)
(* Error-learning pipeline of claude-context-mem:                          *)
(*   - detectBashError / extractErrorFeatures (utils/error-detection.ts)   *)
(*   - observationHandler.execute (cli/handlers/observation.ts)            *)
(*                                                                         *)
(* A text is the sequence of its UTF-16 code units, as a JavaScript string  *)
(* is.  A code unit is written as the one-character string it is when it   *)
(* is a printable ASCII character or one of "\t", "\n", "\f", "\r", and by *)
(* its name "U+XXXX" (four upper-case hexadecimal digits) otherwise, so    *)
(* that every code unit has one written form:                              *)
(* "U+000B" is the vertical tab, "U+00A0" the no-break space, "U+2028" the *)
(* line separator, "U+D83D" a high surrogate.  The regular expressions of  *)
(* the source are modelled code unit by code unit (none has the u flag):   *)
(* leftmost match, greedy quantifiers, the /i flag, \s, \d, \w, \b, '.'.   *)
(*                                                                         *)
(* A Number that parseInt returns is written as the sequence of the digits *)
(* of its exact decimal expansion (<< "1", "2", "7" >> is 127); NaN and    *)
(* Infinity are the one-element sequences << "NaN" >>, << "Infinity" >>.   *)
(***************************************************************************)
EXTENDS Integers, Sequences, FiniteSets, TLC

VARIABLES
    pc,             \* position of the running function / handler
    tool_name,      \* input.tool_name / toolName
    tool_response,  \* input.tool_response / toolResponse (tagged value)
    cwd,            \* input.cwd of the hook input
    errorResult,    \* ErrorDetectionResult of detectBashError
    errorMessage,   \* argument of extractErrorFeatures
    features,       \* ErrorFeatures of extractErrorFeatures
    worker,         \* outcome of ensureWorkerRunning()
    observation,    \* state of the POST /api/sessions/observations request
    submit,         \* state of the POST /api/sessions/errors request
    submitBody,     \* body sent with the error submission
    debugLog,       \* messages given to logger.debug, in the order of the calls
    query,          \* state of the GET /api/errors/similar request
    similar,        \* parsed body of the similar-error response
    printed,        \* lines written with console.log
    hookResult      \* what execute() returned or threw

vars == << pc, tool_name, tool_response, cwd, errorResult, errorMessage,
           features, worker, observation, submit, submitBody, debugLog,
           query, similar, printed, hookResult >>

(***************************************************************************)
(* Characters                                                              *)
(***************************************************************************)
UpperLetters == << "A","B","C","D","E","F","G","H","I","J","K","L","M",
                   "N","O","P","Q","R","S","T","U","V","W","X","Y","Z" >>
LowerLetters == << "a","b","c","d","e","f","g","h","i","j","k","l","m",
                   "n","o","p","q","r","s","t","u","v","w","x","y","z" >>
Digits == << "0","1","2","3","4","5","6","7","8","9" >>

UpperSet == { UpperLetters[k] : k \in 1..26 }
LowerSet == { LowerLetters[k] : k \in 1..26 }
DigitSet == { Digits[k] : k \in 1..10 }

\* hexadecimal digits of the code-unit names and of the JSON \u escapes
HexUpper == << "0","1","2","3","4","5","6","7","8","9","A","B","C","D","E","F" >>
HexLower == << "0","1","2","3","4","5","6","7","8","9","a","b","c","d","e","f" >>
\* the name of the code unit with hexadecimal digits HexUpper[q[1]] .. HexUpper[q[4]]
CodeUnit(q) == "U+" \o HexUpper[q[1]] \o HexUpper[q[2]] \o HexUpper[q[3]] \o HexUpper[q[4]]

\* LF, CR, LS, PS
LineTerminators == { "\n", "\r", "U+2028", "U+2029" }
\* TAB, VT, FF, ZWNBSP and the space separators (Unicode category Zs)
WhiteSpace == { "\t", "U+000B", "\f", "U+FEFF",
                " ", "U+00A0", "U+1680",
                "U+2000", "U+2001", "U+2002", "U+2003", "U+2004", "U+2005",
                "U+2006", "U+2007", "U+2008", "U+2009", "U+200A",
                "U+202F", "U+205F", "U+3000" }

\* \d
IsDigit(c) == c \in DigitSet
\* \s: white space and line terminators
IsSpace(c) == c \in WhiteSpace \/ c \in LineTerminators
\* \w (without the u flag: ASCII only, also under /i)
IsWordChar(c) == c \in UpperSet \/ c \in LowerSet \/ c \in DigitSet \/ c = "_"
\* characters '.' does not match (no s flag)
IsLineTerminator(c) == c \in LineTerminators

\* canonical form of a character under the /i flag; without the u flag a
\* code unit outside ASCII is never folded onto an ASCII letter
ToLowerTable == [ c \in UpperSet |-> LowerLetters[CHOOSE k \in 1..26 : UpperLetters[k] = c] ]
ToLower(c) == IF c \in UpperSet THEN ToLowerTable[c] ELSE c
\* value of a decimal digit
DigitValueTable == [ c \in DigitSet |-> (CHOOSE k \in 1..10 : Digits[k] = c) - 1 ]

(***************************************************************************)
(* parseInt of a run of decimal digits.  The result is a Number, a double: *)
(* exact below 2^53, rounded to the nearest double (ties to even) from     *)
(* there on, and Infinity from 2^1024 - 2^970 on.  The arithmetic is done  *)
(* on sequences of digit values, most significant digit first.             *)
(***************************************************************************)
NaN == << "NaN" >>
Infinity == << "Infinity" >>
Zero == << "0" >>

\* the element of a one-element set; a set binder evaluates its range once
Only(S) == CHOOSE x \in S : TRUE

DigitValues(ds) == << >> \o [ k \in 1..Len(ds) |-> DigitValueTable[ds[k]] ]
Numeral(v) == << >> \o [ k \in 1..Len(v) |-> Digits[v[k] + 1] ]
\* v without its leading zeros
StripZeros(v) ==
    IF \A k \in 1..Len(v) : v[k] = 0 THEN << 0 >>
    ELSE SubSeq(v, CHOOSE i \in 1..Len(v) : v[i] # 0 /\ \A k \in 1..(i - 1) : v[k] = 0,
                Len(v))
IsOdd(v) == v[Len(v)] % 2 = 1
\* v \div 2: the remainder carried into a digit is the parity of the one before
Half(v) ==
    StripZeros(<< >> \o [ k \in 1..Len(v) |->
        (10 * (IF k = 1 THEN 0 ELSE v[k - 1] % 2) + v[k]) \div 2 ])
\* 2 * v: the carry into a digit is 1 when the next digit is 5 or more
Twice(v) ==
    LET low == << >> \o [ k \in 1..Len(v) |->
                   ((2 * v[k]) % 10) + (IF k < Len(v) /\ v[k + 1] >= 5 THEN 1 ELSE 0) ]
    IN  IF v[1] >= 5 THEN << 1 >> \o low ELSE low
\* v + 1
Succ(v) ==
    IF \A k \in 1..Len(v) : v[k] = 9
    THEN << 1 >> \o [ k \in 1..Len(v) |-> 0 ]
    ELSE LET j == CHOOSE i \in 1..Len(v) : v[i] # 9 /\ \A k \in (i + 1)..Len(v) : v[k] = 9
         IN  << >> \o [ k \in 1..Len(v) |->
                         IF k < j THEN v[k] ELSE IF k = j THEN v[k] + 1 ELSE 0 ]
\* a < b, for numbers without leading zeros
Less(a, b) ==
    \/ Len(a) < Len(b)
    \/ /\ Len(a) = Len(b)
       /\ \E i \in 1..Len(a) : a[i] < b[i] /\ \A k \in 1..(i - 1) : a[k] = b[k]
\* 2^52 and 2^53
Two52 == << 4,5,0,3,5,9,9,6,2,7,3,7,0,4,9,6 >>
Two53 == << 9,0,0,7,1,9,9,2,5,4,7,4,0,9,9,2 >>

RECURSIVE HalfTimes(_, _)
\* v \div 2^n
HalfTimes(v, n) ==
    IF n = 0 THEN v
    ELSE IF n = 1 THEN Half(v)
    ELSE Only({ HalfTimes(w, m) : w \in { HalfTimes(v, n \div 2) },
                                  m \in { n - (n \div 2) } })
RECURSIVE TwiceTimes(_, _)
\* v * 2^n
TwiceTimes(v, n) ==
    IF n = 0 THEN v
    ELSE IF n = 1 THEN Twice(v)
    ELSE Only({ TwiceTimes(w, m) : w \in { TwiceTimes(v, n \div 2) },
                                   m \in { n - (n \div 2) } })

\* for v >= 2^53: the number of low bits that do not fit the 53-bit
\* significand, looked for around (number of digits) * log2(10) - 53
ExcessBits(v) ==
    LET lo   == ((Len(v) - 1) * 3321) \div 1000 - 53
        hi   == (Len(v) * 3322) \div 1000 - 51
        from == IF lo < 1 THEN 1 ELSE lo
    IN  Only({ CHOOSE n \in from..hi :
                   \E q \in { HalfTimes(w, n - from) } : Less(q, Two53) /\ ~Less(q, Two52)
               : w \in { HalfTimes(v, from) } })
\* the significand of v >= 2^53 once its low `bits` bits are rounded away:
\* v is compared with the middle of the two neighbouring doubles
RoundBits(v, bits) ==
    Only({ Only({ IF Less(v, mid) THEN q
                  ELSE IF Less(mid, v) THEN Succ(q)
                  ELSE IF IsOdd(q) THEN Succ(q) ELSE q
                  : mid \in { TwiceTimes(Succ(Twice(q)), bits - 1) } })
           : q \in { HalfTimes(v, bits) } })
\* the double nearest to the integer v
ToDouble(v) ==
    IF Less(v, Two53) THEN Numeral(v)
    ELSE IF Len(v) > 309 THEN Infinity
    ELSE Only({ Only({ IF bits > 971 \/ (bits = 971 /\ m = Two53) THEN Infinity
                       ELSE Numeral(TwiceTimes(m, bits))
                       : m \in { RoundBits(v, bits) } })
                : bits \in { ExcessBits(v) } })

\* parseInt(ds) for a run ds of decimal digits (radix 10); the empty run gives NaN
parseInt(ds) ==
    IF Len(ds) = 0 THEN NaN
    ELSE Only({ ToDouble(v) : v \in { StripZeros(DigitValues(ds)) } })

\* the literal `lit` (given in lower case) occurs in s at position i, case
\* ignored
LitAt(s, i, lit) ==
    /\ i >= 1
    /\ i + Len(lit) - 1 <= Len(s)
    /\ \A k \in 1..Len(lit) : ToLower(s[i + k - 1]) = lit[k]

\* character classes used by the quantified parts of the patterns
InClass(cls, c) ==
    CASE cls = "digit"      -> IsDigit(c)                       \* \d
      [] cls = "colonSpace" -> c = ":" \/ IsSpace(c)            \* [:\s]
      [] cls = "space"      -> IsSpace(c)                       \* \s
      [] cls = "dot"        -> ~IsLineTerminator(c)             \* .
      [] cls = "capsRest"   -> c \in UpperSet \/ IsDigit(c) \/ c = "_"  \* [A-Z0-9_]
      [] cls = "pathSeg"    -> IsWordChar(c) \/ c = "." \/ c = "-"      \* [\w.-]

\* end (exclusive) of the longest run of characters of class cls starting at i
RunEnd(s, i, cls) ==
    IF i > Len(s) THEN i
    ELSE CHOOSE e \in i..(Len(s) + 1) :
            /\ \A k \in i..(e - 1) : InClass(cls, s[k])
            /\ e = Len(s) + 1 \/ ~InClass(cls, s[e])

AllInClass(s, a, b, cls) == \A k \in a..b : InClass(cls, s[k])

(***************************************************************************)
(* Pattern tables of error-detection.ts                                    *)
(***************************************************************************)
\* an exit-code pattern: literal, optional [:\s]+ separator, then (\d+)
EXIT_CODE_PATTERNS == <<
    [ lit |-> << "e", "x", "i", "t", " ", "c", "o", "d", "e" >>, sep |-> TRUE ],
    [ lit |-> << "e", "x", "i", "t", "e", "d", " ", "w", "i", "t", "h", " ", "c", "o", "d", "e", " " >>, sep |-> FALSE ],
    [ lit |-> << "r", "e", "t", "u", "r", "n", "e", "d", " " >>, sep |-> FALSE ] >>

\* a test pattern: one of `heads`, then a gap, then `tail`
\*   gap "none": nothing; "spaces": \s+; "any": .*
ERROR_KEYWORD_PATTERNS == <<
    [ heads |-> { << "e", "r", "r", "o", "r", ":" >> }, gap |-> "none", tail |-> << >> ],
    [ heads |-> { << "e", "r", "r", "!" >> }, gap |-> "none", tail |-> << >> ],
    [ heads |-> { << "b", "u", "i", "l", "d" >>,
                  << "t", "e", "s", "t" >>,
                  << "c", "o", "m", "m", "a", "n", "d" >>,
                  << "p", "r", "o", "c", "e", "s", "s" >>,
                  << "t", "a", "s", "k" >>,
                  << "j", "o", "b" >>,
                  << "c", "o", "m", "p", "i", "l", "a", "t", "i", "o", "n" >> },
      gap |-> "spaces", tail |-> << "f", "a", "i", "l", "e", "d" >> ],
    [ heads |-> { << "e", "x", "c", "e", "p", "t", "i", "o", "n" >> }, gap |-> "none", tail |-> << >> ] >>

ERROR_TYPE_PATTERNS == <<
    [ pattern |-> [ heads |-> { << "t", "y", "p", "e", "e", "r", "r", "o", "r" >> }, gap |-> "none", tail |-> << >> ],
      type |-> "TypeError" ],
    [ pattern |-> [ heads |-> { << "s", "y", "n", "t", "a", "x", "e", "r", "r", "o", "r" >> }, gap |-> "none", tail |-> << >> ],
      type |-> "SyntaxError" ],
    [ pattern |-> [ heads |-> { << "r", "e", "f", "e", "r", "e", "n", "c", "e", "e", "r", "r", "o", "r" >> }, gap |-> "none", tail |-> << >> ],
      type |-> "ReferenceError" ],
    [ pattern |-> [ heads |-> { << "m", "o", "d", "u", "l", "e", "n", "o", "t", "f", "o", "u", "n", "d", "e", "r", "r", "o", "r" >> }, gap |-> "none", tail |-> << >> ],
      type |-> "ModuleNotFoundError" ],
    [ pattern |-> [ heads |-> { << "n", "p", "m", " ", "e", "r", "r", "!" >> }, gap |-> "none", tail |-> << >> ],
      type |-> "npm" ],
    [ pattern |-> [ heads |-> { << "p", "i", "p" >> }, gap |-> "any", tail |-> << "e", "r", "r", "o", "r" >> ],
      type |-> "pip" ],
    [ pattern |-> [ heads |-> { << "c", "a", "r", "g", "o" >> }, gap |-> "any", tail |-> << "e", "r", "r", "o", "r" >> ],
      type |-> "cargo" ],
    [ pattern |-> [ heads |-> { << "t", "s", "c" >> }, gap |-> "any", tail |-> << "e", "r", "r", "o", "r" >> ],
      type |-> "typescript" ] >>

(***************************************************************************)
(* RegExp.prototype.test and String.prototype.match for these patterns     *)
(***************************************************************************)
\* the test pattern p matches s starting at position i
TestAt(p, s, i) ==
    \E h \in p.heads :
        /\ LitAt(s, i, h)
        /\ LET a == i + Len(h)
           IN  CASE p.gap = "none"   -> LitAt(s, a, p.tail)
                 [] p.gap = "spaces" ->
                      \E b \in (a + 1)..(Len(s) + 1) :
                          AllInClass(s, a, b - 1, "space") /\ LitAt(s, b, p.tail)
                 [] p.gap = "any"    ->
                      \E b \in a..(Len(s) + 1) :
                          AllInClass(s, a, b - 1, "dot") /\ LitAt(s, b, p.tail)

\* pattern.test(s)
Test(p, s) == \E i \in 1..Len(s) : TestAt(p, s, i)

\* where the separator and the captured digits of an exit-code pattern lie
\* when the pattern is tried at position i
ExitSpan(p, s, i) ==
    LET a == i + Len(p.lit)
        b == IF p.sep THEN RunEnd(s, a, "colonSpace") ELSE a
        e == RunEnd(s, b, "digit")
    IN  [ a |-> a, b |-> b, e |-> e ]

\* the exit-code pattern p matches s starting at position i
ExitMatchAt(p, s, i) ==
    LET sp == ExitSpan(p, s, i)
    IN  /\ LitAt(s, i, p.lit)
        /\ (p.sep => sp.b > sp.a)
        /\ sp.e > sp.b

NoMatch == [ matched |-> FALSE ]

\* mutant: the last match instead of the leftmost one
ExitMatchLast(p, s) ==
    IF \E i \in 1..Len(s) : ExitMatchAt(p, s, i)
    THEN LET i  == CHOOSE j \in 1..Len(s) :
                       /\ ExitMatchAt(p, s, j)
                       /\ \A k \in (j + 1)..Len(s) : ~ExitMatchAt(p, s, k)
             sp == ExitSpan(p, s, i)
         IN  [ matched |-> TRUE, index |-> i, group1 |-> SubSeq(s, sp.b, sp.e - 1) ]
    ELSE NoMatch

\* s.match(p) for an exit-code pattern: the leftmost match and its group 1
ExitMatch(p, s) ==
    IF \E i \in 1..Len(s) : ExitMatchAt(p, s, i)
    THEN LET i  == CHOOSE j \in 1..Len(s) :
                       /\ ExitMatchAt(p, s, j)
                       /\ \A k \in 1..(j - 1) : ~ExitMatchAt(p, s, k)
             sp == ExitSpan(p, s, i)
         IN  [ matched |-> TRUE, index |-> i, group1 |-> SubSeq(s, sp.b, sp.e - 1) ]
    ELSE NoMatch

(***************************************************************************)
(* JSON.stringify of the non-string tool responses considered              *)
(***************************************************************************)
\* U+0000 .. U+001F, U+D800 .. U+DBFF, U+DC00 .. U+DFFF by their hex digits
ControlQuads == { << 1, 1, a, b >> : a \in 1..2, b \in 1..16 }
HighSurrogateQuads == { << 14, a, b, c >> : a \in 9..12, b \in 1..16, c \in 1..16 }
LowSurrogateQuads == { << 14, a, b, c >> : a \in 13..16, b \in 1..16, c \in 1..16 }
ControlUnits == { CodeUnit(q) : q \in ControlQuads }
HighSurrogates == { CodeUnit(q) : q \in HighSurrogateQuads }
LowSurrogates == { CodeUnit(q) : q \in LowSurrogateQuads }

\* \uxxxx with lower-case hexadecimal digits
UnicodeEscape(c) ==
    LET q == CHOOSE q \in ControlQuads \cup HighSurrogateQuads \cup LowSurrogateQuads :
                 CodeUnit(q) = c
    IN  << "\\", "u", HexLower[q[1]], HexLower[q[2]], HexLower[q[3]], HexLower[q[4]] >>

\* QuoteJSONString for one code unit; a surrogate met here stands alone
JSONEscape(c) ==
    CASE c = "\"" -> << "\\", "\"" >>
      [] c = "\\" -> << "\\", "\\" >>
      [] c = "\n" -> << "\\", "n" >>
      [] c = "\r" -> << "\\", "r" >>
      [] c = "\t" -> << "\\", "t" >>
      [] c = "\f" -> << "\\", "f" >>
      [] c = "U+0008" -> << "\\", "b" >>
      [] OTHER    -> IF c \in ControlUnits \/ c \in HighSurrogates \/ c \in LowSurrogates
                     THEN UnicodeEscape(c)
                     ELSE << c >>

RECURSIVE JSONQuoteBody(_)
\* a high surrogate followed by a low one is a code point and is kept as it is
JSONQuoteBody(s) ==
    IF Len(s) = 0 THEN << >>
    ELSE IF Len(s) >= 2 /\ s[1] \in HighSurrogates /\ s[2] \in LowSurrogates
    THEN << s[1], s[2] >> \o JSONQuoteBody(SubSeq(s, 3, Len(s)))
    ELSE JSONEscape(Head(s)) \o JSONQuoteBody(Tail(s))

JSONQuote(s) == << "\"" >> \o JSONQuoteBody(s) \o << "\"" >>

\* tool responses: a string, undefined, null, or the object { stdout: <string> }
JSONStringify(v) ==
    CASE v.type = "string" -> JSONQuote(v.value)
      [] v.type = "object" ->
            << "{", "\"", "s", "t", "d", "o", "u", "t", "\"", ":" >> \o JSONQuote(v.stdout) \o << "}" >>

\* typeof r === 'string' ? r : JSON.stringify(r ?? '')
CoerceResponse(r) ==
    IF r.type = "string" THEN r.value
    ELSE IF r.type \in { "undefined", "null" }
         THEN JSONStringify([ type |-> "string", value |-> << >> ])
         ELSE JSONStringify(r)

(***************************************************************************)
(* detectBashError                                                         *)
(***************************************************************************)
RECURSIVE KeywordLoopShort(_, _)
\* mutant: the last keyword pattern is never tried
KeywordLoopShort(response, k) ==
    IF k >= Len(ERROR_KEYWORD_PATTERNS) THEN [ isError |-> FALSE ]
    ELSE IF Test(ERROR_KEYWORD_PATTERNS[k], response)
         THEN [ isError |-> TRUE, errorMessage |-> response ]
         ELSE KeywordLoopShort(response, k + 1)

RECURSIVE KeywordLoop(_, _)
\* for (const pattern of ERROR_KEYWORD_PATTERNS), from entry k on
KeywordLoop(response, k) ==
    IF k > Len(ERROR_KEYWORD_PATTERNS) THEN [ isError |-> FALSE ]
    ELSE IF Test(ERROR_KEYWORD_PATTERNS[k], response)
         THEN [ isError |-> TRUE, errorMessage |-> response ]
         ELSE KeywordLoop(response, k + 1)

RECURSIVE ExitCodeLoopFirstMatch(_, _)
\* mutant: the first pattern that matches ends the scan, zero or not
ExitCodeLoopFirstMatch(response, k) ==
    IF k > Len(EXIT_CODE_PATTERNS) THEN KeywordLoop(response, 1)
    ELSE LET match == ExitMatch(EXIT_CODE_PATTERNS[k], response)
         IN  IF match.matched
             THEN IF parseInt(match.group1) # Zero
                  THEN [ isError |-> TRUE, errorMessage |-> response,
                         exitCode |-> parseInt(match.group1) ]
                  ELSE KeywordLoop(response, 1)
             ELSE ExitCodeLoopFirstMatch(response, k + 1)

RECURSIVE ExitCodeLoopAnyCode(_, _)
\* mutant: the test for a non-zero code is missing
ExitCodeLoopAnyCode(response, k) ==
    IF k > Len(EXIT_CODE_PATTERNS) THEN KeywordLoop(response, 1)
    ELSE LET match == ExitMatch(EXIT_CODE_PATTERNS[k], response)
         IN  IF match.matched
             THEN [ isError |-> TRUE, errorMessage |-> response,
                    exitCode |-> parseInt(match.group1) ]
             ELSE ExitCodeLoopAnyCode(response, k + 1)

RECURSIVE ExitCodeLoop(_, _)
\* for (const pattern of EXIT_CODE_PATTERNS), from entry k on
ExitCodeLoop(response, k) ==
    IF k > Len(EXIT_CODE_PATTERNS) THEN KeywordLoop(response, 1)
    ELSE LET match == ExitMatch(EXIT_CODE_PATTERNS[k], response)
         IN  IF match.matched /\ parseInt(match.group1) # Zero
             THEN [ isError |-> TRUE, errorMessage |-> response,
                    exitCode |-> parseInt(match.group1) ]
             ELSE ExitCodeLoop(response, k + 1)

\* mutant: the tool name is compared without regard to case
detectBashErrorAnyCase(input) ==
    IF input.tool_name \notin { "Bash", "bash" } THEN [ isError |-> FALSE ]
    ELSE ExitCodeLoop(CoerceResponse(input.tool_response), 1)

detectBashError(input) ==
    IF input.tool_name # "Bash" THEN [ isError |-> FALSE ]
    ELSE ExitCodeLoop(CoerceResponse(input.tool_response), 1)

\* what detectBashError hands to logger.debug on the way to result: line 74
\* logs on the return of the keyword loop, the one return that reports a
\* failure without an exit code; no other path logs
detectBashErrorLogged(result) ==
    IF result.isError /\ "exitCode" \notin DOMAIN result
    THEN << "error keyword detected" >>
    ELSE << >>

(***************************************************************************)
(* extractErrorFeatures                                                    *)
(***************************************************************************)
RECURSIVE ErrorTypeLoopNoBreak(_, _)
\* mutant: the break is missing, the last matching entry wins
ErrorTypeLoopNoBreak(message, k) ==
    IF k > Len(ERROR_TYPE_PATTERNS) THEN "unknown"
    ELSE LET rest == ErrorTypeLoopNoBreak(message, k + 1)
         IN  IF rest = "unknown" /\ Test(ERROR_TYPE_PATTERNS[k].pattern, message)
             THEN ERROR_TYPE_PATTERNS[k].type
             ELSE rest

RECURSIVE ErrorTypeLoop(_, _)
\* for (const [pattern, type] of ERROR_TYPE_PATTERNS) ... break, from entry k on
ErrorTypeLoop(message, k) ==
    IF k > Len(ERROR_TYPE_PATTERNS) THEN "unknown"
    ELSE IF Test(ERROR_TYPE_PATTERNS[k].pattern, message)
         THEN ERROR_TYPE_PATTERNS[k].type
         ELSE ErrorTypeLoop(message, k + 1)

\* \b holds in s just before position i (i = Len(s) + 1: at the end)
WordBoundary(s, i) ==
    LET before == i > 1 /\ i - 1 <= Len(s) /\ IsWordChar(s[i - 1])
        after  == i >= 1 /\ i <= Len(s) /\ IsWordChar(s[i])
    IN  before # after

\* /\b([A-Z][A-Z0-9_]+)\b/ tried at position i: the end (exclusive) of the
\* match, the quantifier giving back characters until \b holds; 0: no match
KeywordMatchEnd(s, i) ==
    IF i <= Len(s) /\ WordBoundary(s, i) /\ s[i] \in UpperSet
    THEN LET m    == RunEnd(s, i + 1, "capsRest")
             ends == { e \in (i + 2)..m : WordBoundary(s, e) }
         IN  IF ends = {} THEN 0
             ELSE CHOOSE e \in ends : \A f \in ends : f <= e
    ELSE 0

RECURSIVE KeywordMatchAll(_, _)
\* errorMessage.match(/.../g): the successive matches from position `from` on
KeywordMatchAll(s, from) ==
    IF \E i \in from..Len(s) : KeywordMatchEnd(s, i) # 0
    THEN LET i == CHOOSE j \in from..Len(s) :
                      /\ KeywordMatchEnd(s, j) # 0
                      /\ \A k \in from..(j - 1) : KeywordMatchEnd(s, k) = 0
             e == KeywordMatchEnd(s, i)
         IN  << SubSeq(s, i, e - 1) >> \o KeywordMatchAll(s, e)
    ELSE << >>

\* mutant: tokens of length 3 pass the filter
LongEnoughFrom3(k) == Len(k) >= 3

\* codeMatch.filter((k) => k.length > 3)
LongEnough(k) == Len(k) > 3
ExtractKeywords(message) == SelectSeq(KeywordMatchAll(message, 1), LongEnough)

RECURSIVE PathEnd(_, _)
\* (?:\/[\w.-]+)+ from position i: the end (exclusive) of the repeated groups
PathEnd(s, i) ==
    IF i <= Len(s) /\ s[i] = "/" /\ RunEnd(s, i + 1, "pathSeg") > i + 1
    THEN PathEnd(s, RunEnd(s, i + 1, "pathSeg"))
    ELSE i

\* errorMessage.match(/(?:\/[\w.-]+)+(?:\.\w+)?/): the optional extension
\* group is always empty, the segments having taken every '.' and \w
PathMatch(s) ==
    IF \E i \in 1..Len(s) : PathEnd(s, i) > i
    THEN LET i == CHOOSE j \in 1..Len(s) :
                      /\ PathEnd(s, j) > j
                      /\ \A k \in 1..(j - 1) : PathEnd(s, k) = k
         IN  [ matched |-> TRUE, index |-> i, text |-> SubSeq(s, i, PathEnd(s, i) - 1) ]
    ELSE NoMatch

extractErrorFeatures(message) ==
    LET base == [ errorType |-> ErrorTypeLoop(message, 1),
                  keywords  |-> ExtractKeywords(message) ]
        pathMatch == PathMatch(message)
    IN  IF pathMatch.matched
        THEN [ errorType |-> base.errorType, keywords |-> base.keywords,
               filePath |-> pathMatch.text ]
        ELSE base

(***************************************************************************)
(* Inputs                                                                  *)
(***************************************************************************)
\* number of fragments a response text given to detectBashError is made of
MaxDetectFrags == 3
\* number of fragments an error message given to extractErrorFeatures is made of
MaxExtractFrags == 3

RECURSIVE Texts(_, _)
\* the texts made of at most n fragments of F
Texts(F, n) ==
    IF n = 0 THEN { << >> }
    ELSE LET shorter == Texts(F, n - 1)
         IN  shorter \cup { t \o f : t \in shorter, f \in F }

DetectFragments == {
    << "e", "x", "i", "t", " ", "c", "o", "d", "e", ":", " ", "0" >>,
    << "E", "x", "i", "t", " ", "C", "o", "d", "e", ":", "\n", "3" >>,
    << "e", "x", "i", "t", " ", "c", "o", "d", "e" >>,
    << "e", "x", "i", "t", "e", "d", " ", "w", "i", "t", "h", " ", "c", "o", "d", "e", " ", "2" >>,
    << "r", "e", "t", "u", "r", "n", "e", "d", " ", "0" >>,
    << "r", "e", "t", "u", "r", "n", "e", "d", " ", "5" >>,
    << "0" >>,
    << "2", "1", "4", "7", "4", "8", "3", "6", "4", "8" >>,
    << "e", "r", "r", "o", "r", ":", "\f" >>,
    << "n", "p", "m", " ", "E", "R", "R", "!" >>,
    << "J", "o", "b", "U+00A0", "\t", "f", "a", "i", "l", "e", "d" >>,
    << "U", "n", "h", "a", "n", "d", "l", "e", "d", "E", "x", "c", "e", "p", "t", "i", "o", "n" >>,
    << " ", "U+2028" >>,
    << "U+0085", ":" >> }

ExtractFragments == {
    << "T", "y", "p", "e", "E", "r", "r", "o", "r" >>,
    << "S", "y", "n", "t", "a", "x", "E", "r", "r", "o", "r", ":" >>,
    << "R", "e", "f", "e", "r", "e", "n", "c", "e", "E", "r", "r", "o", "r" >>,
    << "M", "o", "d", "u", "l", "e", "N", "o", "t", "F", "o", "u", "n", "d", "E", "r", "r", "o", "r" >>,
    << "n", "p", "m", " ", "E", "R", "R", "!" >>,
    << "p", "i", "p" >>,
    << "c", "a", "r", "g", "o" >>,
    << "t", "s", "c" >>,
    << " ", "e", "r", "r", "o", "r" >>,
    << "\n" >>,
    << "E", "N", "O", "E", "N", "T" >>,
    << "E", "D", "O", "M", ":" >>,
    << "E", "R", "R" >>,
    << "E", "_", "1" >>,
    << "U+00C9" >>,
    << "U+2028" >>,
    << "/", "u", "s", "r", "/", "a", ".", "b" >> }

ToolNames == { "Bash", "Read", "bash" }

StringValue(s) == [ type |-> "string", value |-> s ]
ObjectValue(s) == [ type |-> "object", stdout |-> s ]

DetectResponses ==
    { StringValue(s) : s \in Texts(DetectFragments, MaxDetectFrags) }
    \cup { ObjectValue(s) : s \in Texts(DetectFragments, 1) }
    \cup { [ type |-> "undefined" ], [ type |-> "null" ] }

\* a request not sent, a name or directory not used
Idle == "-"
\* a result not computed yet, a body not built yet
Unset == [ kind |-> "none" ]
\* no message handed to extractErrorFeatures yet
NoText == << "none" >>
\* no similar-error body asked for / the body is awaited
NoBody == [ kind |-> "none" ]
PendingBody == [ kind |-> "pending" ]
\* execute() has not finished
NoResult == [ kind |-> "none" ]

(***************************************************************************)
(* SpecDetect: detectBashError applied to every input                      *)
(***************************************************************************)
InitDetect ==
    /\ pc = "detect"
    /\ tool_name \in ToolNames
    /\ tool_response \in DetectResponses
    /\ errorResult = Unset
    /\ cwd = Idle /\ errorMessage = NoText /\ features = Unset /\ worker = Idle
    /\ observation = Idle /\ submit = Idle /\ submitBody = Unset
    /\ debugLog = << >> /\ query = Idle /\ similar = NoBody
    /\ printed = << >> /\ hookResult = NoResult

DetectCall ==
    /\ pc = "detect"
    /\ errorResult' = detectBashError([ tool_name |-> tool_name,
                                        tool_response |-> tool_response ])
    /\ debugLog' = debugLog \o detectBashErrorLogged(errorResult')
    /\ pc' = "detected"
    /\ UNCHANGED << tool_name, tool_response, cwd, errorMessage, features, worker,
                    observation, submit, submitBody, query, similar,
                    printed, hookResult >>

NextDetect == DetectCall

SpecDetect == InitDetect /\ [][NextDetect]_vars

(***************************************************************************)
(* SpecExtract: extractErrorFeatures applied to every message              *)
(***************************************************************************)
InitExtract ==
    /\ pc = "extract"
    /\ errorMessage \in Texts(ExtractFragments, MaxExtractFrags)
    /\ features = Unset
    /\ tool_name = Idle /\ tool_response = [ type |-> "undefined" ]
    /\ errorResult = Unset
    /\ cwd = Idle /\ worker = Idle
    /\ observation = Idle /\ submit = Idle /\ submitBody = Unset
    /\ debugLog = << >> /\ query = Idle /\ similar = NoBody
    /\ printed = << >> /\ hookResult = NoResult

ExtractCall ==
    /\ pc = "extract"
    /\ features' = extractErrorFeatures(errorMessage)
    /\ pc' = "extracted"
    /\ UNCHANGED << tool_name, tool_response, cwd, errorResult, errorMessage, worker,
                    observation, submit, submitBody, debugLog, query, similar,
                    printed, hookResult >>

NextExtract == ExtractCall

SpecExtract == InitExtract /\ [][NextExtract]_vars

(***************************************************************************)
(* observationHandler.execute                                              *)
(*                                                                         *)
(* The handler runs from one await to the next; each run is one action,    *)
(* enabled when the awaited request has settled.  The worker and the       *)
(* collaborator behind the three requests settle them in their own steps,  *)
(* or never.                                                               *)
(***************************************************************************)
\* number of records a similar-error response carries
MaxRecords == 2

HandlerTexts == {
    << >>,
    << "e", "x", "i", "t", " ", "c", "o", "d", "e", ":", " ", "1" >>,
    << "E", "x", "i", "t", " ", "c", "o", "d", "e", ":", " ", "0" >>,
    << "n", "p", "m", " ", "E", "R", "R", "!", " ", "c", "o", "d", "e", " ", "E", "N", "O", "E", "N", "T", " ", "/", "u", "s", "r", "/", "a", ".", "b" >>,
    << "T", "y", "p", "e", "E", "r", "r", "o", "r", ":", " ", "x", "\n", "B", "u", "i", "l", "d", " ", "f", "a", "i", "l", "e", "d" >>,
    << "e", "r", "r", "o", "r", ":", " ", "U+DE00" >>,
    << "e", "r", "r", "o", "r", ":", " ", "U+D83D", "U+DE00" >>,
    << "o", "k" >> }

HandlerResponses ==
    { StringValue(s) : s \in HandlerTexts }
    \cup { ObjectValue(<< "e", "r", "r", "o", "r", ":", " ", "E", "_", "1" >>) }
    \cup { [ type |-> "undefined" ] }

\* toolName and cwd of the hook input; "" stands for a missing value
HandlerToolNames == { "Bash", "Read", "" }
HandlerCwds == { "/work", "" }

\* toolResponse || ''
OrEmptyString(r) ==
    IF r.type \in { "undefined", "null" } \/ (r.type = "string" /\ r.value = << >>)
    THEN StringValue(<< >>)
    ELSE r

\* a record of the similar-error response: null, or an object whose metadata
\* and title may be missing; "" is the empty title
SimilarRecords == {
    [ kind |-> "null" ],
    [ kind |-> "object" ],
    [ kind |-> "object", metadata |-> [ none |-> TRUE ] ],
    [ kind |-> "object", metadata |-> [ title |-> "" ] ],
    [ kind |-> "object", metadata |-> [ title |-> "ENOENT fix" ] ] }

RECURSIVE RecordLists(_)
RecordLists(n) ==
    IF n = 0 THEN { << >> }
    ELSE LET shorter == RecordLists(n - 1)
         IN  shorter \cup { Append(l, e) : l \in shorter, e \in SimilarRecords }

\* what similarResponse.json() resolves to: null, an object without errors,
\* or an object with an errors array
SimilarBodies ==
    { [ kind |-> "null" ], [ kind |-> "object" ] }
    \cup { [ kind |-> "object", errors |-> l ] : l \in RecordLists(MaxRecords) }

Pending == "pending"
ReturnValue == [ kind |-> "returned",
                 value |-> [ continue |-> TRUE, suppressOutput |-> TRUE ] ]
Threw(message) == [ kind |-> "threw", error |-> message ]

\* the JSON body of the error submission (lines 69-77); the session id and
\* the command are passed through and left out; JSON.stringify drops an
\* undefined file_path
ErrorRecord(message, f, dir) ==
    LET base == [ error_message |-> message, error_type |-> f.errorType,
                  keywords |-> f.keywords, cwd |-> dir ]
    IN  IF "filePath" \in DOMAIN f
        THEN [ error_message |-> message, error_type |-> f.errorType,
               keywords |-> f.keywords, cwd |-> dir, file_path |-> f.filePath ]
        ELSE base

\* a surrogate code unit that is not half of a pair
LoneSurrogateAt(s, i) ==
    \/ s[i] \in HighSurrogates /\ ~(i < Len(s) /\ s[i + 1] \in LowSurrogates)
    \/ s[i] \in LowSurrogates /\ ~(i > 1 /\ s[i - 1] \in HighSurrogates)

\* encodeURIComponent(errorResult.errorMessage || '') of line 85 throws a
\* URIError when the text holds a surrogate without its partner
encodeURIComponentThrows(s) == \E i \in 1..Len(s) : LoneSurrogateAt(s, i)

\* e.metadata?.title || 'Error'
RecordTitle(e) ==
    IF "metadata" \in DOMAIN e /\ "title" \in DOMAIN e.metadata /\ e.metadata.title # ""
    THEN e.metadata.title
    ELSE "Error"

\* `- **${...}**` for each record, joined by '\n'
HintContext(errors) == [ i \in 1..Len(errors) |-> [ bullet |-> RecordTitle(errors[i]) ] ]

\* console.log(`\n## <heading>\n${context}\n`) with the heading of line 93
HintBlock(errors) ==
    [ heading |-> << "#", "#", " ", "U+76F8", "U+5173", "U+5386", "U+53F2",
                     "U+9519", "U+8BEF" >>,
      context |-> HintContext(errors) ]

InitHandler ==
    /\ pc = "ensureWorkerRunning"
    /\ tool_name \in HandlerToolNames
    /\ tool_response \in HandlerResponses
    /\ cwd \in HandlerCwds
    /\ worker = Pending
    /\ errorResult = Unset /\ errorMessage = NoText /\ features = Unset
    /\ observation = Idle /\ submit = Idle /\ submitBody = Unset
    /\ query = Idle /\ similar = NoBody
    /\ debugLog = << >> /\ printed = << >> /\ hookResult = NoResult

\* ensureWorkerRunning() resolves or rejects
WorkerSettles ==
    /\ worker = Pending
    /\ worker' \in { "running", "rejected" }
    /\ UNCHANGED << pc, tool_name, tool_response, cwd, errorResult, errorMessage,
                    features, observation, submit, submitBody, debugLog, query,
                    similar, printed, hookResult >>

\* lines 15-48: after ensureWorkerRunning, validate and send the observation
AfterEnsureWorker ==
    /\ pc = "ensureWorkerRunning"
    /\ worker # Pending
    /\ IF worker = "rejected"
       THEN /\ pc' = "threw"
            /\ hookResult' = Threw("ensureWorkerRunning failed")
            /\ UNCHANGED observation
       ELSE IF tool_name = ""
       THEN /\ pc' = "threw"
            /\ hookResult' = Threw("observationHandler requires toolName")
            /\ UNCHANGED observation
       ELSE IF cwd = ""
       THEN /\ pc' = "threw"
            /\ hookResult' = Threw("Missing cwd in PostToolUse hook input")
            /\ UNCHANGED observation
       ELSE /\ pc' = "awaitObservation"
            /\ observation' = Pending
            /\ UNCHANGED hookResult
    /\ UNCHANGED << tool_name, tool_response, cwd, errorResult, errorMessage,
                    features, worker, submit, submitBody, debugLog, query,
                    similar, printed >>

\* the POST /api/sessions/observations request settles
ObservationSettles ==
    /\ observation = Pending
    /\ observation' \in { "ok", "notOk", "rejected" }
    /\ UNCHANGED << pc, tool_name, tool_response, cwd, errorResult, errorMessage,
                    features, worker, submit, submitBody, debugLog, query,
                    similar, printed, hookResult >>

\* mutant: the error submission is awaited before the query is sent
AfterObservationAwaitsSubmit ==
    /\ pc = "awaitObservation"
    /\ observation # Pending
    /\ IF observation = "rejected"
       THEN /\ pc' = "threw"
            /\ hookResult' = Threw("fetch failed")
            /\ UNCHANGED << errorResult, errorMessage, features, submit,
                            submitBody, query, debugLog >>
       ELSE IF observation = "notOk"
       THEN /\ pc' = "threw"
            /\ hookResult' = Threw("Observation storage failed")
            /\ UNCHANGED << errorResult, errorMessage, features, submit,
                            submitBody, query, debugLog >>
       ELSE /\ errorResult' = detectBashError([ tool_name |-> tool_name,
                              tool_response |-> OrEmptyString(tool_response) ])
            /\ IF errorResult'.isError
               THEN /\ errorMessage' = errorResult'.errorMessage
                    /\ features' = extractErrorFeatures(errorMessage')
                    /\ submit' = Pending
                    /\ submitBody' = ErrorRecord(errorMessage', features', cwd)
                    /\ UNCHANGED query
                    /\ pc' = "awaitSubmit"
                    /\ UNCHANGED hookResult
               ELSE /\ pc' = "returned"
                    /\ hookResult' = ReturnValue
                    /\ UNCHANGED << errorMessage, features, submit,
                                    submitBody, query >>
            /\ debugLog' = debugLog \o << "Observation sent successfully" >>
                                    \o detectBashErrorLogged(errorResult')
    /\ UNCHANGED << tool_name, tool_response, cwd, worker, observation,
                    similar, printed >>

\* lines 50-86 (and 96-102 when the query URL cannot be built): after the
\* observation response, classify; on an error send the error record without
\* awaiting it and send the similar-error query
AfterObservation ==
    /\ pc = "awaitObservation"
    /\ observation # Pending
    /\ IF observation = "rejected"
       THEN /\ pc' = "threw"
            /\ hookResult' = Threw("fetch failed")
            /\ UNCHANGED << errorResult, errorMessage, features, submit,
                            submitBody, query, debugLog >>
       ELSE IF observation = "notOk"
       THEN /\ pc' = "threw"
            /\ hookResult' = Threw("Observation storage failed")
            /\ UNCHANGED << errorResult, errorMessage, features, submit,
                            submitBody, query, debugLog >>
       ELSE /\ errorResult' = detectBashError([ tool_name |-> tool_name,
                              tool_response |-> OrEmptyString(tool_response) ])
            /\ IF errorResult'.isError
               THEN /\ errorMessage' = errorResult'.errorMessage
                    /\ features' = extractErrorFeatures(errorMessage')
                    /\ submit' = Pending
                    /\ submitBody' = ErrorRecord(errorMessage', features', cwd)
                    /\ IF encodeURIComponentThrows(errorMessage')
                       THEN /\ debugLog' = debugLog
                                    \o << "Observation sent successfully" >>
                                    \o detectBashErrorLogged(errorResult')
                                    \o << "Similar error query failed" >>
                            /\ pc' = "returned"
                            /\ hookResult' = ReturnValue
                            /\ UNCHANGED query
                       ELSE /\ debugLog' = debugLog
                                    \o << "Observation sent successfully" >>
                                    \o detectBashErrorLogged(errorResult')
                            /\ query' = Pending
                            /\ pc' = "awaitSimilar"
                            /\ UNCHANGED hookResult
               ELSE /\ debugLog' = debugLog
                                    \o << "Observation sent successfully" >>
                                    \o detectBashErrorLogged(errorResult')
                    /\ pc' = "returned"
                    /\ hookResult' = ReturnValue
                    /\ UNCHANGED << errorMessage, features, submit,
                                    submitBody, query >>
    /\ UNCHANGED << tool_name, tool_response, cwd, worker, observation,
                    similar, printed >>

\* the POST /api/sessions/errors request settles; a rejection runs the
\* .catch callback of line 78, which logs
SubmitSettles ==
    /\ submit = Pending
    /\ \E outcome \in { "ok", "notOk", "rejected" } :
          /\ submit' = outcome
          /\ debugLog' = IF outcome = "rejected"
                         THEN Append(debugLog, "Error storage failed")
                         ELSE debugLog
    /\ UNCHANGED << pc, tool_name, tool_response, cwd, errorResult, errorMessage,
                    features, worker, observation, submitBody, query, similar,
                    printed, hookResult >>

\* the GET /api/errors/similar request settles
QuerySettles ==
    /\ query = Pending
    /\ query' \in { "ok", "notOk", "rejected" }
    /\ UNCHANGED << pc, tool_name, tool_response, cwd, errorResult, errorMessage,
                    features, worker, observation, submit, submitBody, debugLog,
                    similar, printed, hookResult >>

\* mutant: the try/catch around the query is missing
AfterSimilarNoCatch ==
    /\ pc = "awaitSimilar"
    /\ query \notin { Idle, Pending }
    /\ IF query = "rejected"
       THEN /\ pc' = "threw"
            /\ hookResult' = Threw("fetch failed")
            /\ UNCHANGED << similar, debugLog >>
       ELSE IF query = "notOk"
       THEN /\ pc' = "returned"
            /\ hookResult' = ReturnValue
            /\ UNCHANGED << similar, debugLog >>
       ELSE /\ pc' = "awaitJson"
            /\ similar' = PendingBody
            /\ UNCHANGED << hookResult, debugLog >>
    /\ UNCHANGED << tool_name, tool_response, cwd, errorResult, errorMessage,
                    features, worker, observation, submit, submitBody, query,
                    printed >>

\* lines 84-88 and 96-102: after the similar-error response
AfterSimilar ==
    /\ pc = "awaitSimilar"
    /\ query \notin { Idle, Pending }
    /\ IF query = "rejected"
       THEN /\ debugLog' = Append(debugLog, "Similar error query failed")
            /\ pc' = "returned"
            /\ hookResult' = ReturnValue
            /\ UNCHANGED similar
       ELSE IF query = "notOk"
       THEN /\ pc' = "returned"
            /\ hookResult' = ReturnValue
            /\ UNCHANGED << similar, debugLog >>
       ELSE /\ pc' = "awaitJson"
            /\ similar' = PendingBody
            /\ UNCHANGED << hookResult, debugLog >>
    /\ UNCHANGED << tool_name, tool_response, cwd, errorResult, errorMessage,
                    features, worker, observation, submit, submitBody, query,
                    printed >>

\* similarResponse.json() resolves with a body or rejects
JsonSettles ==
    /\ similar = PendingBody
    /\ similar' \in SimilarBodies \cup { [ kind |-> "rejected" ] }
    /\ UNCHANGED << pc, tool_name, tool_response, cwd, errorResult, errorMessage,
                    features, worker, observation, submit, submitBody, debugLog,
                    query, printed, hookResult >>

\* destructuring null, or reading e.metadata of a null record, throws
BodyThrows(body) ==
    \/ body.kind \in { "rejected", "null" }
    \/ /\ "errors" \in DOMAIN body
       /\ \E i \in 1..Len(body.errors) : body.errors[i].kind = "null"

\* lines 88-102: after the body of the similar-error response
AfterJson ==
    /\ pc = "awaitJson"
    /\ similar \notin { NoBody, PendingBody }
    /\ IF BodyThrows(similar)
       THEN /\ debugLog' = Append(debugLog, "Similar error query failed")
            /\ UNCHANGED printed
       ELSE /\ printed' = IF "errors" \in DOMAIN similar /\ Len(similar.errors) > 0
                          THEN Append(printed, HintBlock(similar.errors))
                          ELSE printed
            /\ UNCHANGED debugLog
    /\ pc' = "returned"
    /\ hookResult' = ReturnValue
    /\ UNCHANGED << tool_name, tool_response, cwd, errorResult, errorMessage,
                    features, worker, observation, submit, submitBody, query,
                    similar >>

\* the steps of the handler itself
HandlerStep == AfterEnsureWorker \/ AfterObservation \/ AfterSimilar \/ AfterJson

Next ==
    \/ WorkerSettles
    \/ AfterEnsureWorker
    \/ ObservationSettles
    \/ AfterObservation
    \/ SubmitSettles
    \/ QuerySettles
    \/ AfterSimilar
    \/ JsonSettles
    \/ AfterJson

Init == InitHandler

Spec == Init /\ [][Next]_vars

\* a continuation whose awaited promise has settled is run by the event loop;
\* nothing makes the worker or the collaborator answer
FairSpec == Spec /\ WF_vars(HandlerStep)

(***************************************************************************)
(* Properties of detectBashError (SpecDetect)                              *)
(***************************************************************************)
Response == CoerceResponse(tool_response)
Detected == pc = "detected"
BashDetected == Detected /\ tool_name = "Bash"

HasField(r, f) == f \in DOMAIN r

\* exit-code pattern k occurs in s at position i / the Number it captures there
Occurs(k, s, i) == ExitMatchAt(EXIT_CODE_PATTERNS[k], s, i)
ValueAt(k, s, i) ==
    LET sp == ExitSpan(EXIT_CODE_PATTERNS[k], s, i)
    IN  parseInt(SubSeq(s, sp.b, sp.e - 1))
PatternMatches(k, s) == \E i \in 1..Len(s) : Occurs(k, s, i)
Leftmost(k, s, i) == Occurs(k, s, i) /\ \A j \in 1..(i - 1) : ~Occurs(k, s, j)
\* the leftmost occurrence of pattern k captures the non-zero integer n
LeftmostIs(k, s, n) == \E i \in 1..Len(s) : Leftmost(k, s, i) /\ ValueAt(k, s, i) = n
LeftmostNonZero(k, s) == \E i \in 1..Len(s) : Leftmost(k, s, i) /\ ValueAt(k, s, i) # Zero
ExitPatterns == 1..Len(EXIT_CODE_PATTERNS)
AnyExitPattern(s) == \E k \in ExitPatterns : PatternMatches(k, s)
AnyKeyword(s) == \E k \in 1..Len(ERROR_KEYWORD_PATTERNS) : Test(ERROR_KEYWORD_PATTERNS[k], s)

\* C1: for a tool name other than 'Bash' the result is exactly
\* { isError: false }, with no errorMessage and no exitCode, whatever the
\* response contains.
C1_NonBashNeverError ==
    (Detected /\ tool_name # "Bash") => errorResult = [ isError |-> FALSE ]

\* a non-Bash call whose response would have been flagged for 'Bash'
C1_Witness ==
    /\ Detected /\ tool_name # "Bash"
    /\ errorResult = [ isError |-> FALSE ]
    /\ \E k \in ExitPatterns : LeftmostNonZero(k, Response)
    /\ AnyKeyword(Response)

\* C2 as stated: every occurrence of an exit-code pattern with a non-zero
\* value N in a Bash response makes the result an error with exitCode = N and
\* errorMessage = the response text.
C2_AnyNonZeroOccurrence ==
    BashDetected =>
        \A k \in ExitPatterns : \A i \in 1..Len(Response) :
            (Occurs(k, Response, i) /\ ValueAt(k, Response, i) # Zero) =>
                errorResult = [ isError |-> TRUE, errorMessage |-> Response,
                                exitCode |-> ValueAt(k, Response, i) ]

\* C2 amended: when the leftmost occurrence of some exit-code pattern in a
\* Bash response captures a non-zero value, the result is an error whose
\* errorMessage is the response text and whose exitCode is the value captured
\* by the leftmost occurrence of the first pattern, in priority order, whose
\* leftmost occurrence captures a non-zero value.
C2_LeftmostNonZeroOccurrence ==
    BashDetected =>
        \A k \in ExitPatterns : \A i \in 1..Len(Response) :
            ( /\ Leftmost(k, Response, i)
              /\ ValueAt(k, Response, i) # Zero
              /\ \A j \in 1..(k - 1) : ~LeftmostNonZero(j, Response) ) =>
                errorResult = [ isError |-> TRUE, errorMessage |-> Response,
                                exitCode |-> ValueAt(k, Response, i) ]

\* a Bash response with a non-zero exit code after an earlier zero occurrence
\* of a higher-ranked pattern, reported with that non-zero code
C2_Witness ==
    /\ BashDetected
    /\ \E k \in ExitPatterns :
          /\ LeftmostNonZero(k, Response)
          /\ \A j \in 1..(k - 1) : ~LeftmostNonZero(j, Response)
          /\ HasField(errorResult, "exitCode")
          /\ LeftmostIs(k, Response, errorResult.exitCode)
          /\ \E i, j \in 1..Len(Response) :
                i < j /\ Occurs(k, Response, i) /\ Occurs(k, Response, j)

C4_KeywordVerdict ==
    (BashDetected /\ ~AnyExitPattern(Response)) =>
        IF AnyKeyword(Response)
        THEN errorResult = [ isError |-> TRUE, errorMessage |-> Response ]
        ELSE errorResult = [ isError |-> FALSE ]

\* a Bash response without exit code flagged by the '<noun> failed' or the
\* 'exception' keyword alone
C4_Witness ==
    /\ BashDetected
    /\ ~AnyExitPattern(Response)
    /\ ~Test(ERROR_KEYWORD_PATTERNS[1], Response)
    /\ ~Test(ERROR_KEYWORD_PATTERNS[2], Response)
    /\ AnyKeyword(Response)
    /\ errorResult = [ isError |-> TRUE, errorMessage |-> Response ]

\* C5: every result has errorMessage exactly when isError; isError = false
\* implies no exitCode; an exitCode that is present is non-zero and comes
\* with isError = true.
C5_ResultInvariant ==
    Detected =>
        /\ HasField(errorResult, "errorMessage") <=> errorResult.isError
        /\ ~errorResult.isError => ~HasField(errorResult, "exitCode")
        /\ HasField(errorResult, "exitCode") =>
              errorResult.exitCode # Zero /\ errorResult.isError

\* a result carrying an exit code although the text also holds a zero one
C5_Witness ==
    /\ BashDetected
    /\ HasField(errorResult, "exitCode")
    /\ \E k \in ExitPatterns : \E i \in 1..Len(Response) :
          Occurs(k, Response, i) /\ ValueAt(k, Response, i) = Zero

(***************************************************************************)
(* Properties of extractErrorFeatures (SpecExtract)                        *)
(***************************************************************************)
Extracted == pc = "extracted"

\* a token of the text is a whole word: a maximal run of word characters
TokenStarts(s) ==
    { i \in 1..Len(s) : IsWordChar(s[i]) /\ (i = 1 \/ ~IsWordChar(s[i - 1])) }
TokenLast(s, i) ==
    CHOOSE e \in i..Len(s) :
        /\ \A k \in i..e : IsWordChar(s[k])
        /\ e = Len(s) \/ ~IsWordChar(s[e + 1])
TokenAt(s, i) == SubSeq(s, i, TokenLast(s, i))
\* an uppercase letter followed by one or more uppercase letters, digits, '_'
IsAllCaps(w) ==
    /\ Len(w) >= 2
    /\ w[1] \in UpperSet
    /\ \A k \in 2..Len(w) : w[k] \in UpperSet \/ w[k] \in DigitSet \/ w[k] = "_"
AllCapsStarts(s) == { i \in TokenStarts(s) : IsAllCaps(TokenAt(s, i)) }
LongCapsStarts(s) == { i \in AllCapsStarts(s) : Len(TokenAt(s, i)) >= 4 }

\* C6: the keywords are exactly the all-caps tokens of length at least 4, in
\* their order of appearance, repeats kept; no token of length 3 or less is
\* included.
C6_KeywordsAreLongCapsTokens ==
    Extracted =>
        LET Q == LongCapsStarts(errorMessage)
        IN  /\ Len(features.keywords) = Cardinality(Q)
            /\ \A i \in Q :
                  features.keywords[Cardinality({ j \in Q : j <= i })]
                      = TokenAt(errorMessage, i)
            /\ \A n \in 1..Len(features.keywords) : Len(features.keywords[n]) >= 4

\* a message with a short all-caps token left out and two different long
\* ones kept, the one of exactly four characters ahead of the other as in the
\* message
C6_Witness ==
    /\ Extracted
    /\ \E i \in AllCapsStarts(errorMessage) : Len(TokenAt(errorMessage, i)) <= 3
    /\ Len(features.keywords) = 2
    /\ Len(features.keywords[1]) = 4
    /\ features.keywords[1] # features.keywords[2]
    /\ \E i, j \in LongCapsStarts(errorMessage) :
          /\ i < j
          /\ features.keywords[1] = TokenAt(errorMessage, i)
          /\ features.keywords[2] = TokenAt(errorMessage, j)

\* the catalog of error types in its order
CatalogTags == << "TypeError", "SyntaxError", "ReferenceError", "ModuleNotFoundError",
                  "npm", "pip", "cargo", "typescript" >>
CatalogMatches(message) ==
    { k \in 1..Len(ERROR_TYPE_PATTERNS) : Test(ERROR_TYPE_PATTERNS[k].pattern, message) }

\* C7: errorType is the tag of the earliest catalog entry whose pattern
\* matches the message, and 'unknown' exactly when no entry matches.
C7_EarliestCatalogEntry ==
    Extracted =>
        LET M == CatalogMatches(errorMessage)
        IN  /\ Len(ERROR_TYPE_PATTERNS) = Len(CatalogTags)
            /\ (features.errorType = "unknown") <=> (M = {})
            /\ \A k \in M :
                  (\A j \in M : k <= j) => features.errorType = CatalogTags[k]

\* a message matched by two or more catalog entries, tagged by the earliest
C7_Witness ==
    /\ Extracted
    /\ Cardinality(CatalogMatches(errorMessage)) >= 2
    /\ \E k \in CatalogMatches(errorMessage) :
          /\ \A j \in CatalogMatches(errorMessage) : k <= j
          /\ features.errorType = CatalogTags[k]
          /\ k >= 5

(***************************************************************************)
(* Properties of observationHandler.execute (Spec, FairSpec)               *)
(***************************************************************************)
Finished == pc \in { "returned", "threw" }
BodySettled == similar \notin { NoBody, PendingBody }
\* the similar-error response carries no record
ZeroRecords(body) ==
    /\ body.kind = "object"
    /\ "errors" \in DOMAIN body => Len(body.errors) = 0
\* the title of a record, or the label 'Error' when it has none
TitleOrError(e) ==
    IF e.kind = "object" /\ "metadata" \in DOMAIN e /\ "title" \in DOMAIN e.metadata
    THEN IF e.metadata.title = "" THEN "Error" ELSE e.metadata.title
    ELSE "Error"

\* C8: the error submission is fire-and-forget: the step that sends it also
\* sends the similar-error query (or returns at once, when the query URL
\* cannot be built), every later step of the handler is enabled by the query
\* alone, and once a failure was classified the handler ends with its normal
\* result whatever the state of the submission.
C8_SubmissionNeverAwaited ==
    /\ submit # Idle => (query # Idle \/ pc = "returned")
    /\ (pc = "awaitSimilar" /\ query \notin { Idle, Pending }) => ENABLED AfterSimilar
    /\ (pc = "awaitJson" /\ BodySettled) => ENABLED AfterJson
    /\ (submit # Idle /\ Finished) => hookResult = ReturnValue

\* the handler has returned while the submission is still pending
C8_Witness ==
    /\ pc = "returned"
    /\ submit = Pending
    /\ errorResult.isError
    /\ hookResult = ReturnValue

\* C9: once a failure is classified and the similar-error query is sent, the
\* handler eventually returns, also when the collaborator never answers.
C9_HandlerEventuallyReturns == (query = Pending) ~> Finished

\* C10: a failed similar-error query (network error, non-success response,
\* unreadable body, a URL that cannot be built) or one with zero records prints nothing and the handler
\* returns its normal result without raising; a hint block is printed only
\* for a successful response with at least one record, and has one bullet
\* per record showing its title or the label 'Error'.
C10_QueryFailureIsSilent ==
    /\ query # Idle => pc # "threw"
    /\ ( /\ Finished
         /\ \/ query \in { "rejected", "notOk" }
            \/ query = Idle /\ submit # Idle
            \/ query = "ok" /\ similar.kind \in { "rejected", "null" }
            \/ query = "ok" /\ ZeroRecords(similar) ) =>
            printed = << >> /\ hookResult = ReturnValue
    /\ printed # << >> =>
          /\ query = "ok"
          /\ similar.kind = "object"
          /\ "errors" \in DOMAIN similar
          /\ Len(similar.errors) >= 1
          /\ Len(printed) = 1
          /\ Len(printed[1].context) = Len(similar.errors)
          /\ \A i \in 1..Len(similar.errors) :
                printed[1].context[i].bullet = TitleOrError(similar.errors[i])
          /\ hookResult = ReturnValue

\* the query was rejected and the handler returned normally, nothing printed
C10_Witness ==
    /\ pc = "returned"
    /\ query = "rejected"
    /\ printed = << >>
    /\ hookResult = ReturnValue

====
